---- MODULE Spec2Model ----
(***************************************************************************)
(* Model of aya/src/programs/extension.rs: the Extension program's load,   *)
(* attach and attach_to_program operations and the get_btf_info resolver,  *)
(* over a process file-descriptor table and a fixed set of kernel objects. *)
(***************************************************************************)
EXTENDS Integers, Sequences, FiniteSets, TLC

\* ------------------------------------------------------------------ bounds

\* File descriptors of the process are 3..MaxFd (0, 1, 2 are the standard streams).
MaxFd == 7
\* Calls of load on the instance.
MaxLoads == 2
\* Longest run of btf_obj_get_info_by_fd rounds the kernel is asked for.
MaxRounds == 3

\* --------------------------------------------------------- program constants

\* vec![0u8; 4096]
InitBufLen == 4096
\* BPF_CGROUP_INET_INGRESS, "the attach type must be set as 0"
BPF_CGROUP_INET_INGRESS == 0
\* flags argument of bpf_link_create
LinkFlags == 0

\* ------------------------------------------------------------------ Option

None == <<>>
Some(x) == <<x>>
IsSome(o) == o # <<>>
Unwrap(o) == o[1]

\* ------------------------------------------------------- the kernel's objects

\* Programs already loaded in the kernel that a caller may hold a handle to.
Progs == {"pA", "pC"}
\* Function names a caller may pass.
FuncNames == {"f", "g", "missing_fn"}
\* bpf_prog_info.btf_id of a program: pA was loaded with BTF object 1, pC with none.
ProgBtfId(p) == IF p = "pA" THEN 1 ELSE 0
\* The BTF object a BTF id names.
BtfObj(id) == "btf1"
\* Btf::id_by_type_name_kind(func_name, BtfKind::Func) in BTF object id:
\* None = no such function.
FuncTypeId(id, name) ==
    CASE id = 1 /\ name = "f" -> Some(11)
      [] id = 1 /\ name = "g" -> Some(12)
      [] OTHER -> None

\* ------------------------------------------------------ the descriptor table

Closed == "closed"
FdNums == 3..MaxFd
FreeFds(tab) == {n \in FdNums : tab[n] = Closed}
\* The kernel hands out the lowest free descriptor.
LowestFree(tab) == CHOOSE n \in FreeFds(tab) : \A m \in FreeFds(tab) : n <= m
CloseFd(tab, n) == [tab EXCEPT ![n] = Closed]
\* Dropping an Option<fd>: closes the descriptor when there is one.
DropOpt(tab, o) == IF IsSome(o) THEN CloseFd(tab, Unwrap(o)) ELSE tab

\* ------------------------------------------------------------------- state

VARIABLES
    fd,                 \* data.fd: the extension's own program fd, Option
    attach_prog_fd,     \* data.attach_prog_fd, Option
    attach_btf_obj_fd,  \* data.attach_btf_obj_fd, Option
    attach_btf_id,      \* data.attach_btf_id, Option
    links,              \* data.links: the ids (= link fds) in the link table
    fdtab,              \* the process's descriptor table: fd -> object or Closed
    callerFds,          \* ProgramFd handles the caller owns
    last,               \* the last operation: arguments, result, kernel calls
    hist                \* history: the load that succeeded, the loads called

vars == <<fd, attach_prog_fd, attach_btf_obj_fd, attach_btf_id, links, fdtab,
          callerFds, last, hist>>

\* ----------------------------------------------------- the growing-buffer loop

\* What btf_obj_get_info_by_fd answers in one round: Err or the btf_size it reports.
Err == 0 - 1
Sizes == {100, 4096, 4097, 10000, 20000}
Resp == Sizes \cup {Err}

\* buf.resize(btf_size, 0u8)
ResizeDouble(buflen, btf_size) == buflen * 2
Resize(buflen, btf_size) == btf_size

\* if btf_size >= buf.len(): the test with the equal case taken as too small.
TooSmallOrEqual(buflen, btf_size) == btf_size >= buflen

\* if btf_size > buf.len(): the buffer cannot hold what the kernel reports.
TooSmall(buflen, btf_size) == btf_size > buflen

\* loop { ... } of get_btf_info over the kernel's answers resp[i], resp[i+1], ...
\* buflen is buf.len(). res: "ok" (break), "err" (the ? returned), "more" (the
\* answers are used up).
RECURSIVE FetchLoop(_, _, _, _, _)
FetchLoop(resp, i, buflen, rounds, resizes) ==
    IF i > Len(resp)
    THEN [res |-> "more", buflen |-> buflen, cap |-> buflen,
          rounds |-> rounds, resizes |-> resizes]
    ELSE IF resp[i] = Err
    THEN [res |-> "err", buflen |-> buflen, cap |-> buflen,
          rounds |-> rounds + 1, resizes |-> resizes]
    ELSE IF TooSmall(buflen, resp[i])
    THEN FetchLoop(resp, i + 1, Resize(buflen, resp[i]), rounds + 1, resizes + 1)
    ELSE \* buf.truncate(btf_size); break: cap is the length before the truncation
         [res |-> "ok", buflen |-> resp[i], cap |-> buflen,
          rounds |-> rounds + 1, resizes |-> resizes]

RunLoop(resp) == FetchLoop(resp, 1, InitBufLen, 0, 0)

\* The answer sequences the loop reads to the end, of at most MaxRounds rounds.
FetchSeqs ==
    {s \in UNION {[1..n -> Resp] : n \in 1..MaxRounds} :
        RunLoop(s).res # "more" /\ RunLoop(s).rounds = Len(s)}

\* What the kernel and the parser do during one resolution.
\* fail: the step that fails ("none": no step fails by itself).
Envs ==
    {[fail |-> x, fetch |-> <<>>] : x \in {"prog_info", "open"}}
    \cup {[fail |-> x, fetch |-> s] : x \in {"parse", "none"}, s \in FetchSeqs}

\* The environments the operations are run in when the claim is not about the
\* sizes: every failing step, and a blob that fits the first buffer.
MainEnvs ==
    {e \in Envs : e.fetch \in {<<>>, <<4096>>, <<Err>>}}

\* ------------------------------------------------------------ get_btf_info

\* The names of the kernel calls, as SyscallError.call carries them.
SysProgInfo == "bpf_prog_get_info_by_fd"
SysBtfGetFd == "bpf_btf_get_fd_by_id"
SysBtfInfo == "btf_obj_get_info_by_fd"
SysLinkCreate == "bpf_link_create"
SysProgLoad == "bpf_prog_load"
SyscallError(call) == "SyscallError:" \o call

Repeat(x, n) == [i \in 1..n |-> x]

\* The result of a resolution that ended before any descriptor was opened.
\* info: the btf_id bpf_prog_get_info_by_fd reported, None when the call failed.
ResolveEarly(res, info, tab, calls) ==
    [res |-> res, info_btf_id |-> info, btf_fd |-> None, btf_id |-> None, tab |-> tab,
     opened |-> {}, closed |-> {}, calls |-> calls,
     rounds |-> 0, resizes |-> 0, buflen |-> 0, cap |-> 0, sizes |-> <<>>]

\* btf_fd goes out of scope on an early return: the owned descriptor is closed.
LeakBtfFd(tab, b) == tab
DropBtfFd(tab, b) == CloseFd(tab, b)

\* get_btf_info from bpf_btf_get_fd_by_id on, for a program whose info.btf_id is id.
OpenAndFetch(id, func_name, env, tab) ==
    IF env.fail = "open" \/ id = 0 \/ FreeFds(tab) = {}
    THEN ResolveEarly(SyscallError(SysBtfGetFd), Some(id), tab,
                      <<SysProgInfo, SysBtfGetFd>>)
    ELSE
      LET b == LowestFree(tab)
          tabOpen == [tab EXCEPT ![b] = BtfObj(id)]
          loop == RunLoop(env.fetch)
          tid == FuncTypeId(id, func_name)
          res == IF loop.res # "ok" THEN SyscallError(SysBtfInfo)
                 ELSE IF env.fail = "parse" THEN "Btf:parse"
                 ELSE IF tid = None THEN "Btf:UnknownBtfTypeName"
                 ELSE "ok"
          tabEnd == IF res = "ok" THEN tabOpen ELSE DropBtfFd(tabOpen, b)
      IN [res |-> res,
          info_btf_id |-> Some(id),
          btf_fd |-> IF res = "ok" THEN Some(b) ELSE None,
          btf_id |-> IF res = "ok" THEN tid ELSE None,
          tab |-> tabEnd,
          opened |-> {b},
          closed |-> {n \in {b} : tabEnd[n] = Closed},
          calls |-> <<SysProgInfo, SysBtfGetFd>> \o Repeat(SysBtfInfo, loop.rounds),
          rounds |-> loop.rounds, resizes |-> loop.resizes,
          buflen |-> loop.buflen, cap |-> loop.cap, sizes |-> env.fetch]

\* get_btf_info without the info.btf_id == 0 test.
get_btf_info_NoZeroTest(prog, func_name, env, tab) ==
    IF env.fail = "prog_info"
    THEN ResolveEarly(SyscallError(SysProgInfo), None, tab, <<SysProgInfo>>)
    ELSE OpenAndFetch(ProgBtfId(prog), func_name, env, tab)

\* get_btf_info(prog_fd, func_name), prog the program prog_fd refers to.
get_btf_info(prog, func_name, env, tab) ==
    IF env.fail = "prog_info"
    THEN ResolveEarly(SyscallError(SysProgInfo), None, tab, <<SysProgInfo>>)
    ELSE IF ProgBtfId(prog) = 0
    THEN ResolveEarly("NoBTF", Some(0), tab, <<SysProgInfo>>)
    ELSE OpenAndFetch(ProgBtfId(prog), func_name, env, tab)

\* ------------------------------------------------------------- the log

\* The part of the log that describes a resolution, for operations without one.
NoResolve == ResolveEarly("none", None, <<>>, <<>>)

Log(op, h, func, res, id, r, calls, link_calls) ==
    [op |-> op, h |-> h, func |-> func, res |-> res, id |-> id,
     calls |-> r.calls \o calls, link_calls |-> link_calls,
     resolve |-> r.res, info_btf_id |-> r.info_btf_id, opened |-> r.opened, closed |-> r.closed,
     btf_fd |-> r.btf_fd, btf_id |-> r.btf_id,
     rounds |-> r.rounds, resizes |-> r.resizes, buflen |-> r.buflen,
     cap |-> r.cap, sizes |-> r.sizes]

\* --------------------------------------------------------------------- Init

Init ==
    /\ fd = None
    /\ attach_prog_fd = None
    /\ attach_btf_obj_fd = None
    /\ attach_btf_id = None
    /\ links = {}
    /\ fdtab = [n \in FdNums |-> Closed]
    /\ callerFds = {}
    /\ last = Log("new", None, "", "ok", None, NoResolve, <<>>, <<>>)
    /\ hist = [loaded |-> FALSE, target |-> None, btf_fd |-> None, btf_id |-> None,
               loads_after |-> FALSE, loads |-> 0]

\* The instance exists: it has not been dropped.
Alive == last.op # "drop"

\* ------------------------------------------------------------ the caller

\* prog.fd().unwrap().try_clone(): the caller obtains its own handle to program p.
\* The caller holds one handle at a time: it passes it to load, or lends it to
\* attach_to_program, before it obtains another.
OpenTarget(p) ==
    /\ Alive
    /\ FreeFds(fdtab) # {}
    /\ callerFds = {}
    /\ LET n == LowestFree(fdtab) IN
        /\ fdtab' = [fdtab EXCEPT ![n] = p]
        /\ callerFds' = callerFds \cup {n}
        /\ last' = Log("open", Some(n), "", "ok", None, NoResolve, <<>>, <<>>)
    /\ UNCHANGED <<fd, attach_prog_fd, attach_btf_obj_fd, attach_btf_id, links, hist>>

\* --------------------------------------------------------------------- load

\* load_program(BPF_PROG_TYPE_EXT, &mut self.data): rejected when the program
\* already has a descriptor, else the kernel loads it (kernelOk) or refuses.
load_program(own, tab, kernelOk) ==
    IF IsSome(own)
    THEN [res |-> "AlreadyLoaded", fd |-> own, tab |-> tab, calls |-> <<>>]
    ELSE IF ~kernelOk \/ FreeFds(tab) = {}
    THEN [res |-> "LoadError", fd |-> own, tab |-> tab, calls |-> <<SysProgLoad>>]
    ELSE [res |-> "ok", fd |-> Some(LowestFree(tab)),
          tab |-> [tab EXCEPT ![LowestFree(tab)] = "ext"], calls |-> <<SysProgLoad>>]

\* The three assignments of load, with the TypeId slot given the descriptor number.
StoreMixedUp(h, r) ==
    [attach_btf_obj_fd |-> r.btf_fd, attach_prog_fd |-> Some(h), attach_btf_id |-> r.btf_fd]

\* The three assignments of load without the third.
StoreNoBtfId(h, r) ==
    [attach_btf_obj_fd |-> r.btf_fd, attach_prog_fd |-> Some(h), attach_btf_id |-> None]

\* self.data.attach_btf_obj_fd = Some(btf_fd); self.data.attach_prog_fd = Some(program);
\* self.data.attach_btf_id = Some(btf_id);
StoreAttachParams(h, r) ==
    [attach_btf_obj_fd |-> r.btf_fd, attach_prog_fd |-> Some(h), attach_btf_id |-> r.btf_id]

\* get_btf_info(...) with its error swallowed: load goes on.
ResolveFailedIgnored(r) == FALSE

\* get_btf_info(program.as_fd(), func_name)?: whether the ? returns the error.
ResolveFailed(r) == r.res # "ok"

\* program kept open when load returns early (a raw descriptor).
LeakProgram(tab, h) == tab

\* program: ProgramFd is owned by load: the early return drops it, which closes it.
DropProgram(tab, h) == CloseFd(tab, h)

\* Extension::load(program, func_name): h is the caller's handle, moved into the call.
load(h, func_name, env) ==
    /\ Alive
    /\ h \in callerFds
    /\ hist.loads < MaxLoads
    /\ callerFds' = callerFds \ {h}
    /\ LET r == get_btf_info(fdtab[h], func_name, env, fdtab) IN
        IF ResolveFailed(r)
        THEN \* the ? returns; program is dropped
            /\ fdtab' = DropProgram(r.tab, h)
            /\ UNCHANGED <<fd, attach_prog_fd, attach_btf_obj_fd, attach_btf_id, links>>
            /\ last' = Log("load", Some(h), func_name, r.res, None, r, <<>>, <<>>)
            /\ hist' = [hist EXCEPT !.loads_after = hist.loaded, !.loads = @ + 1]
        ELSE \E kernelOk \in BOOLEAN :
            LET st == StoreAttachParams(h, r)
                \* the values the assignments replace are dropped
                tab1 == DropOpt(DropOpt(r.tab, attach_btf_obj_fd), attach_prog_fd)
                lp == load_program(fd, tab1, kernelOk)
            IN  /\ attach_btf_obj_fd' = st.attach_btf_obj_fd
                /\ attach_prog_fd' = st.attach_prog_fd
                /\ attach_btf_id' = st.attach_btf_id
                /\ fd' = lp.fd
                /\ fdtab' = lp.tab
                /\ UNCHANGED links
                /\ last' = Log("load", Some(h), func_name, lp.res, None, r, lp.calls, <<>>)
                /\ hist' = IF lp.res = "ok"
                           THEN [loaded |-> TRUE, target |-> Some(h), btf_fd |-> r.btf_fd,
                                 btf_id |-> r.btf_id, loads_after |-> FALSE,
                                 loads |-> hist.loads + 1]
                           ELSE [hist EXCEPT !.loads_after = hist.loaded,
                                             !.loads = @ + 1]

\* ------------------------------------------------------- the link attacher

\* self.fd()?, attach_prog_fd.ok_or(NotLoaded)?, attach_btf_id.ok_or(NotLoaded)?
\* without the first of the three tests.
AttachPrecheckNoOwnFd(own, target, btf_id) ==
    IF target = None \/ btf_id = None THEN "NotLoaded" ELSE "ok"

\* self.fd()?, attach_prog_fd.ok_or(NotLoaded)?, attach_btf_id.ok_or(NotLoaded)?
AttachPrecheck(own, target, btf_id) ==
    IF own = None THEN "NotLoaded"
    ELSE IF target = None THEN "NotLoaded"
    ELSE IF btf_id = None THEN "NotLoaded"
    ELSE "ok"

\* The arguments of the bpf_link_create call of attach and attach_to_program.
LinkCreateArgs(own, target, btf_id) ==
    [prog_fd |-> own, target_fd |-> target, attach_type |-> BPF_CGROUP_INET_INGRESS,
     flags |-> LinkFlags, target_btf_id |-> btf_id]

\* links.insert(ExtensionLink::new(FdLink::new(link_fd))) with link_fd closed
\* instead of moved into the link.
InsertLinkDropFd(tab, lnks, n) ==
    [tab |-> CloseFd(tab, n), links |-> lnks \cup {n}, id |-> Some(n)]

\* links.insert(...) that puts the new link in the place of the ones in the table.
InsertLinkReplace(tab, lnks, n) ==
    [tab |-> tab, links |-> {n}, id |-> Some(n)]

\* links.insert(ExtensionLink::new(FdLink::new(link_fd))): the link owns link_fd,
\* and its id is the descriptor.
InsertLink(tab, lnks, n) ==
    [tab |-> tab, links |-> lnks \cup {n}, id |-> Some(n)]

\* The kernel's bpf_link_create: the descriptor of the new link, or the OS error
\* (EMFILE when the descriptor table is full, else the kernel's refusal).
bpf_link_create(tab, kernelOk) ==
    IF FreeFds(tab) = {} THEN [ok |-> FALSE, fd |-> None, ret |-> "EMFILE"]
    ELSE IF ~kernelOk THEN [ok |-> FALSE, fd |-> None, ret |-> "EINVAL"]
    ELSE [ok |-> TRUE, fd |-> Some(LowestFree(tab)), ret |-> "ok"]

\* .map_err(...) that keeps the call name and loses the io_error.
LinkCreateErrorBare(io_error) == SyscallError(SysLinkCreate)

\* .map_err(|io_error| SyscallError { call: "bpf_link_create", io_error })
LinkCreateError(io_error) == SyscallError(SysLinkCreate) \o ":" \o io_error

\* bpf_link_create(...).map_err(SyscallError)? and the insert, shared by both
\* entry points.
CreateAndInsert(tab, lnks, kernelOk) ==
    LET k == bpf_link_create(tab, kernelOk) IN
    IF ~k.ok
    THEN [res |-> LinkCreateError(k.ret), tab |-> tab, links |-> lnks, id |-> None,
          ret |-> k.ret]
    ELSE LET n == Unwrap(k.fd)
             ins == InsertLink([tab EXCEPT ![n] = "link"], lnks, n)
         IN [res |-> "ok", tab |-> ins.tab, links |-> ins.links, id |-> ins.id,
             ret |-> k.ret]

\* One bpf_link_create call as the log keeps it: its arguments and the kernel's
\* answer.
LinkCall(args, ret) ==
    [prog_fd |-> args.prog_fd, target_fd |-> args.target_fd,
     attach_type |-> args.attach_type, flags |-> args.flags,
     target_btf_id |-> args.target_btf_id, ret |-> ret]

\* self.data.fd.take() in the place of self.fd()?: the descriptor leaves data.fd.
TakeOwnFd(own) == [arg |-> own, left |-> None]

\* let prog_fd = self.fd()?; let prog_fd = prog_fd.as_fd(): the descriptor is
\* borrowed for the call (arg) and stays in data.fd (left).
BorrowOwnFd(own) == [arg |-> own, left |-> own]

\* Extension::attach()
attach ==
    /\ Alive
    /\ IF AttachPrecheck(fd, attach_prog_fd, attach_btf_id) # "ok"
       THEN
           /\ last' = Log("attach", None, "", "NotLoaded", None, NoResolve, <<>>, <<>>)
           /\ UNCHANGED <<fd, attach_prog_fd, attach_btf_obj_fd, attach_btf_id, links,
                          fdtab, callerFds, hist>>
       ELSE \E kernelOk \in BOOLEAN :
           LET c == CreateAndInsert(fdtab, links, kernelOk)
               own == BorrowOwnFd(fd)
           IN
           /\ fd' = own.left
           /\ fdtab' = c.tab
           /\ links' = c.links
           /\ last' = Log("attach", None, "", c.res, c.id, NoResolve, <<SysLinkCreate>>,
                          <<LinkCall(LinkCreateArgs(own.arg, attach_prog_fd, attach_btf_id),
                                     c.ret)>>)
           /\ UNCHANGED <<attach_prog_fd, attach_btf_obj_fd, attach_btf_id,
                          callerFds, hist>>

\* attach_to_program without the self.fd()? test.
AtpPrecheckSkipped(own) == "ok"

\* let prog_fd = self.fd()?; in attach_to_program
AtpPrecheck(own) == IF own = None THEN "NotLoaded" ELSE "ok"

\* attach_to_program with the resolved pair written back to the stored slots.
AtpParamsStored(cur, h, r) ==
    [attach_btf_obj_fd |-> cur.attach_btf_obj_fd, attach_prog_fd |-> Some(h),
     attach_btf_id |-> r.btf_id]

\* The stored slots after attach_to_program: it assigns none of them.
AtpParams(cur, h, r) == cur

\* attach_to_program passing the stored target and TypeId to bpf_link_create.
AtpTargetStored(cur, h, r) ==
    [target_fd |-> cur.attach_prog_fd, btf_id |-> cur.attach_btf_id]

\* let target_fd = program.as_fd(); let (_, btf_id) = get_btf_info(target_fd, func_name)?
\* the target side and the TypeId attach_to_program passes to bpf_link_create.
AtpTarget(cur, h, r) == [target_fd |-> Some(h), btf_id |-> r.btf_id]

\* let (btf_fd, btf_id) = ... with btf_fd kept from being dropped.
AtpKeepBtfFd(tab, o) == tab

\* let (_, btf_id) = get_btf_info(...)?: the returned btf fd is dropped at the end
\* of the statement.
AtpDropBtfFd(tab, o) == DropOpt(tab, o)

\* program: ProgramFd, taken by value as in load: dropped when the call returns.
ConsumeTarget(tab, callers, h) == [tab |-> CloseFd(tab, h), callerFds |-> callers \ {h}]

\* program: &ProgramFd: the caller's handle is borrowed, the caller keeps it, open.
BorrowTarget(tab, callers, h) == [tab |-> tab, callerFds |-> callers]

\* Extension::attach_to_program(&program, func_name): h is the caller's handle,
\* borrowed.
attach_to_program(h, func_name, env) ==
    /\ Alive
    /\ h \in callerFds
    /\ UNCHANGED hist
    /\ LET r == get_btf_info(fdtab[h], func_name, env, fdtab) IN
        IF r.res # "ok"
        THEN
            /\ fdtab' = BorrowTarget(r.tab, callerFds, h).tab
            /\ callerFds' = BorrowTarget(r.tab, callerFds, h).callerFds
            /\ last' = Log("attach_to_program", Some(h), func_name, r.res, None, r,
                           <<>>, <<>>)
            /\ UNCHANGED <<fd, attach_prog_fd, attach_btf_obj_fd, attach_btf_id, links>>
        ELSE
            LET tab1 == AtpDropBtfFd(r.tab, r.btf_fd)
                cur == [attach_btf_obj_fd |-> attach_btf_obj_fd,
                        attach_prog_fd |-> attach_prog_fd,
                        attach_btf_id |-> attach_btf_id]
                st == AtpParams(cur, h, r)
            IN  /\ attach_btf_obj_fd' = st.attach_btf_obj_fd
                /\ attach_prog_fd' = st.attach_prog_fd
                /\ attach_btf_id' = st.attach_btf_id
                /\ IF AtpPrecheck(fd) # "ok"
                   THEN /\ fdtab' = BorrowTarget(tab1, callerFds, h).tab
                        /\ callerFds' = BorrowTarget(tab1, callerFds, h).callerFds
                        /\ UNCHANGED <<fd, links>>
                        /\ last' = Log("attach_to_program", Some(h), func_name,
                                       "NotLoaded", None, r, <<>>, <<>>)
                   ELSE \E kernelOk \in BOOLEAN :
                        LET c == CreateAndInsert(tab1, links, kernelOk)
                            own == BorrowOwnFd(fd)
                            t == AtpTarget(cur, h, r)
                        IN
                        /\ fd' = own.left
                        /\ fdtab' = BorrowTarget(c.tab, callerFds, h).tab
                        /\ callerFds' = BorrowTarget(c.tab, callerFds, h).callerFds
                        /\ links' = c.links
                        /\ last' = Log("attach_to_program", Some(h), func_name, c.res,
                                       c.id, r, <<SysLinkCreate>>,
                                       <<LinkCall(LinkCreateArgs(own.arg, t.target_fd,
                                                                 t.btf_id), c.ret)>>)

\* Extension::detach(link_id): removes the link from the table, which closes it.
detach(id) ==
    /\ Alive
    /\ UNCHANGED <<fd, attach_prog_fd, attach_btf_obj_fd, attach_btf_id, callerFds, hist>>
    /\ IF id \in links
       THEN /\ links' = links \ {id}
            /\ fdtab' = CloseFd(fdtab, id)
            /\ last' = Log("detach", Some(id), "", "ok", None, NoResolve, <<>>, <<>>)
       ELSE /\ UNCHANGED <<links, fdtab>>
            /\ last' = Log("detach", None, "", "NotAttached", None, NoResolve,
                           <<>>, <<>>)

\* Closing every descriptor of a set.
RECURSIVE CloseAll(_, _)
CloseAll(tab, S) ==
    IF S = {} THEN tab
    ELSE LET n == CHOOSE x \in S : TRUE IN CloseAll(CloseFd(tab, n), S \ {n})

\* The Extension goes out of scope: every field of data is dropped, which closes
\* the descriptors it owns. No operation follows on the instance.
drop ==
    /\ Alive
    /\ fd' = None
    /\ attach_prog_fd' = None
    /\ attach_btf_obj_fd' = None
    /\ attach_btf_id' = None
    /\ links' = {}
    /\ fdtab' = CloseAll(DropOpt(DropOpt(DropOpt(fdtab, fd), attach_prog_fd),
                                 attach_btf_obj_fd), links)
    /\ UNCHANGED hist
    /\ last' = Log("drop", None, "", "ok", None, NoResolve, <<>>, <<>>)
    /\ UNCHANGED callerFds

\* --------------------------------------------------------------------- Next

Next ==
    \/ \E p \in Progs : OpenTarget(p)
    \/ \E h \in FdNums, f \in FuncNames, env \in MainEnvs : load(h, f, env)
    \/ attach
    \/ \E h \in FdNums, f \in FuncNames, env \in MainEnvs : attach_to_program(h, f, env)
    \/ \E id \in FdNums : detach(id)
    \/ drop

Spec == Init /\ [][Next]_vars

\* The resolver alone, under every environment: the caller's handles and
\* attach_to_program on the instance as constructed.
NextResolve ==
    \/ \E p \in Progs : OpenTarget(p)
    \/ \E h \in FdNums, f \in FuncNames, env \in Envs : attach_to_program(h, f, env)

SpecResolve == Init /\ [][NextResolve]_vars

\* ------------------------------------------------------------------ claims

Range(q) == {q[i] : i \in DOMAIN q}
\* The stored AttachParameters triple.
Params == <<attach_prog_fd, attach_btf_obj_fd, attach_btf_id>>
IsAttachOp(op) == op \in {"attach", "attach_to_program"}
\* The operations of an Extension that exists.
InstanceOps == {"load", "attach", "attach_to_program", "detach"}
HasResolve(l) == l.resolve # "none"

\* C1: on an instance on which no load has ever succeeded, attach() returns
\* NotLoaded, issues no link-create call and leaves the link table unchanged.
C1_AttachBeforeLoad ==
    [][(last'.op = "attach" /\ ~hist.loaded) =>
        /\ last'.res = "NotLoaded"
        /\ last'.link_calls = <<>>
        /\ SysLinkCreate \notin Range(last'.calls)
        /\ links' = links]_vars

\* C1 witness: attach was called, no load had succeeded, yet a load that failed in
\* load_program had left the target and TypeId slots filled.
C1_Witness ==
    /\ last.op = "attach"
    /\ ~hist.loaded
    /\ IsSome(attach_prog_fd)
    /\ IsSome(attach_btf_id)

\* C2: after a successful load(target, f), with attach, attach_to_program and detach
\* calls in between, every attach() issues one link-create call whose target is the
\* handle passed to that load and whose TypeId is the one the resolver returned
\* during that load.
C2_AttachUsesLoadParams ==
    (last.op = "attach" /\ hist.loaded /\ ~hist.loads_after) =>
        /\ Len(last.link_calls) = 1
        /\ last.link_calls[1].target_fd = hist.target
        /\ last.link_calls[1].target_btf_id = hist.btf_id

\* C2 witness: an attach that succeeded with a link made earlier still in the
\* table, after a load that succeeded on the second call (the first one failed).
C2_Witness ==
    /\ last.op = "attach"
    /\ last.res = "ok"
    /\ hist.loaded /\ ~hist.loads_after
    /\ hist.loads = 2
    /\ Cardinality(links) >= 2
    /\ last.link_calls[1].target_fd = hist.target

\* C3: attach_to_program leaves the stored target handle, type-graph handle and
\* TypeId unchanged in every outcome.
C3_AtpKeepsParams ==
    [][last'.op = "attach_to_program" => Params' = Params]_vars

\* C3 witness: attach_to_program succeeded with a target and a TypeId other than
\* the stored ones, and the stored ones are still those of the load.
C3_Witness ==
    /\ last.op = "attach_to_program"
    /\ last.res = "ok"
    /\ hist.loaded /\ ~hist.loads_after
    /\ last.h # attach_prog_fd
    /\ last.btf_id # attach_btf_id
    /\ attach_prog_fd = hist.target
    /\ attach_btf_id = hist.btf_id

\* C4: a successful attach() or attach_to_program() returns a LinkId that no link
\* in the table has, and the table gains that link and keeps the others, so
\* two successful attach() calls leave two links with distinct ids in the table.
C4_FreshLinkId ==
    [][(IsAttachOp(last'.op) /\ last'.res = "ok") =>
        /\ IsSome(last'.id)
        /\ Unwrap(last'.id) \notin links
        /\ links' = links \cup {Unwrap(last'.id)}
        /\ Cardinality(links') = Cardinality(links) + 1]_vars

\* C4 witness: attach() succeeded and the table holds two links.
C4_Witness ==
    /\ last.op = "attach"
    /\ last.res = "ok"
    /\ Cardinality(links) = 2
    /\ Unwrap(last.id) \in links

\* C5: when the program-info query reports btf_id 0, load and attach_to_program
\* fail with NoBTF, bpf_btf_get_fd_by_id is not called and no descriptor is opened.
C5_NoBtfOpensNothing ==
    last.info_btf_id = Some(0) =>
        /\ last.op \in {"load", "attach_to_program"}
        /\ last.res = "NoBTF"
        /\ SysBtfGetFd \notin Range(last.calls)
        /\ last.opened = {}

\* C5 witness: a load whose target reported btf_id 0.
C5_Witness ==
    /\ last.op = "load"
    /\ last.info_btf_id = Some(0)
    /\ last.res = "NoBTF"

\* C6: a resolution opens at most one type-graph descriptor; on success it returns
\* that descriptor open; on a failure after the descriptor was opened it closes it
\* before returning, and the descriptor is not open when the operation returns.
C6_ResolverNoLeak ==
    HasResolve(last) =>
        /\ Cardinality(last.opened) <= 1
        /\ Cardinality({i \in DOMAIN last.calls : last.calls[i] = SysBtfGetFd}) <= 1
        /\ last.resolve = "ok" =>
              /\ last.opened = {Unwrap(last.btf_fd)}
              /\ last.closed = {}
        /\ last.resolve # "ok" =>
              /\ last.closed = last.opened
              /\ \A b \in last.opened : fdtab[b] = Closed

\* C6 witness: the target has type info but no function of that name; the
\* descriptor was opened.
C6_Witness ==
    /\ last.resolve = "Btf:UnknownBtfTypeName"
    /\ last.func = "missing_fn"
    /\ last.opened # {}

\* The kernel reported the size S in every round of the last resolution.
ConstantSize(l, S) == l.rounds >= 1 /\ \A i \in DOMAIN l.sizes : l.sizes[i] = S

\* C7: when the kernel reports the same size S in every round, the loop ends after
\* at most 2 fetches: one fetch and no resize if S <= 4096; one resize, to exactly
\* S, and a second fetch that ends the loop if S > 4096.
C7_ConstantSizeTwoRounds ==
    \A S \in Sizes :
        ConstantSize(last, S) =>
            /\ last.rounds <= 2
            /\ S <= InitBufLen => (last.rounds = 1 /\ last.resizes = 0)
            /\ S > InitBufLen =>
                  (last.rounds = 2 /\ last.resizes = 1 /\ last.cap = S /\ last.buflen = S)

\* C7 witness: a blob of 10,000 bytes: two rounds, one resize to 10,000.
C7_Witness ==
    /\ last.sizes = <<10000, 10000>>
    /\ last.rounds = 2
    /\ last.cap = 10000

\* C8: after a load that failed, at the resolution or in the generic load call,
\* the stored target handle, type-graph handle and TypeId are all absent.
C8_FailedLoadKeepsNothing ==
    (last.op = "load" /\ last.res # "ok") =>
        /\ attach_prog_fd = None
        /\ attach_btf_obj_fd = None
        /\ attach_btf_id = None

\* C9 as stated: attach_to_program on an instance on which no load has succeeded
\* fails with NotLoaded for every target and name, and issues no link-create call.
C9_AtpBeforeLoadNotLoaded ==
    (last.op = "attach_to_program" /\ ~hist.loaded) =>
        /\ last.res = "NotLoaded"
        /\ last.link_calls = <<>>

\* C9 amended: attach_to_program on an instance on which no load has succeeded
\* never succeeds and issues no link-create call; it fails with NotLoaded when
\* the resolution of (p, f) succeeds and with the resolution's error otherwise.
C9_AtpBeforeLoadFails ==
    (last.op = "attach_to_program" /\ ~hist.loaded) =>
        /\ last.res = IF last.resolve = "ok" THEN "NotLoaded" ELSE last.resolve
        /\ last.res # "ok"
        /\ last.link_calls = <<>>
        /\ SysLinkCreate \notin Range(last.calls)

\* C9 witness: the resolution succeeded and the call failed with NotLoaded.
C9_Witness ==
    /\ last.op = "attach_to_program"
    /\ ~hist.loaded
    /\ last.resolve = "ok"
    /\ last.res = "NotLoaded"

\* C10: once a load has succeeded, no later load, attach, attach_to_program or
\* detach call changes the stored target handle, type-graph handle or TypeId.
C10_ParamsWrittenOnce ==
    [][(hist.loaded /\ last'.op \in InstanceOps) => Params' = Params]_vars

\* C11: the own program handle is set only by a load that succeeds, and once it is
\* set no load, attach, attach_to_program or detach call, successful or failed,
\* clears or changes it or closes the descriptor: Loaded stays Loaded.
C11_StaysLoaded ==
    [][last'.op \in InstanceOps =>
        /\ IsSome(fd) => (fd' = fd /\ fdtab'[Unwrap(fd)] = "ext")
        /\ (fd = None /\ IsSome(fd')) => (last'.op = "load" /\ last'.res = "ok")
        /\ (last'.op # "load" \/ last'.res # "ok") => fd' = fd]_vars

\* C11 witness: a Loaded instance with a link in its table on which an attach or
\* attach_to_program has just failed in bpf_link_create: it is still Loaded.
C11_Witness ==
    /\ IsAttachOp(last.op)
    /\ last.res = LinkCreateError("EINVAL")
    /\ links # {}
    /\ IsSome(fd)
    /\ fdtab[Unwrap(fd)] = "ext"

\* The bpf_link_create calls among the kernel calls of the logged operation.
LinkCreateCalls(l) == {i \in DOMAIN l.calls : l.calls[i] = SysLinkCreate}

\* C12: when bpf_link_create fails inside attach or attach_to_program, the call
\* returns the SyscallError of "bpf_link_create" with the kernel's OS error, exactly
\* one link-create call was made, the link table is unchanged and so are the
\* stored target handle, type-graph handle and TypeId.
C12_LinkCreateFailure ==
    [][(IsAttachOp(last'.op) /\ last'.link_calls # <<>>
            /\ last'.link_calls[Len(last'.link_calls)].ret # "ok") =>
        /\ last'.res = SyscallError(SysLinkCreate) \o ":" \o last'.link_calls[1].ret
        /\ last'.link_calls[1].ret \in {"EMFILE", "EINVAL"}
        /\ Len(last'.link_calls) = 1
        /\ Cardinality(LinkCreateCalls(last')) = 1
        /\ last'.id = None
        /\ links' = links
        /\ Params' = Params]_vars

\* C12 witness: attach_to_program on a Loaded instance; the resolution succeeded
\* and the kernel refused the link.
C12_Witness ==
    /\ last.op = "attach_to_program"
    /\ last.resolve = "ok"
    /\ last.link_calls # <<>>
    /\ last.link_calls[1].ret = "EINVAL"
    /\ last.res = LinkCreateError("EINVAL")
    /\ links = {}
    /\ IsSome(attach_btf_id)

\* C13: the bpf_link_create call of attach_to_program has the shape of attach's:
\* the program side is the extension's own descriptor, the attach type is 0, the
\* flags are 0; its target is the handle the caller supplied, never the stored
\* one, and its TypeId is the one resolved in this call for (p, f).
C13_AtpCallShape ==
    (last.op = "attach_to_program" /\ last.link_calls # <<>>) =>
        LET c == last.link_calls[1] IN
        /\ IsSome(fd)
        /\ c.prog_fd = fd
        /\ c.attach_type = 0
        /\ c.flags = 0
        /\ c.target_fd = last.h
        /\ c.target_fd # attach_prog_fd
        /\ IsSome(c.target_btf_id)
        /\ c.target_btf_id = last.btf_id
        /\ c.target_btf_id = FuncTypeId(ProgBtfId(fdtab[Unwrap(last.h)]), last.func)

\* C13 witness: attach_to_program succeeded with a function whose TypeId is not
\* the stored one; the call carried the new TypeId.
C13_Witness ==
    /\ last.op = "attach_to_program"
    /\ last.res = "ok"
    /\ last.link_calls # <<>>
    /\ IsSome(attach_btf_id)
    /\ last.link_calls[1].target_btf_id # attach_btf_id
    /\ last.link_calls[1].target_fd # attach_prog_fd

\* The descriptors of the table that refer to a type graph.
BtfOpen == {n \in FdNums : fdtab[n] = BtfObj(ProgBtfId("pA"))}
\* An Option as the set of what it holds.
OptSet(o) == IF IsSome(o) THEN {Unwrap(o)} ELSE {}

\* C14: after every operation the type-graph descriptors that are open are
\* exactly the stored one, and nothing else owns it; a type-graph descriptor is
\* closed only in the step in which its owner lets go of it (so once); the one
\* a resolution of attach_to_program or of a failed load opened is closed when
\* the call returns; none is open after the instance is dropped.
C14_TypeGraphHandles ==
    [][/\ BtfOpen' = OptSet(attach_btf_obj_fd')
       /\ OptSet(attach_btf_obj_fd') \cap
              (links' \cup callerFds' \cup OptSet(fd') \cup OptSet(attach_prog_fd')) = {}
       /\ \A n \in BtfOpen \ BtfOpen' :
              /\ attach_btf_obj_fd = Some(n)
              /\ attach_btf_obj_fd' # Some(n)
              /\ last'.op \in {"load", "drop"}
       /\ last'.op \in {"load", "attach_to_program"} =>
              \A b \in last'.opened :
                  (b \in BtfOpen') <=> (last'.op = "load" /\ last'.resolve = "ok"
                                          /\ attach_btf_obj_fd' = Some(b))
       /\ last'.op = "attach_to_program" => BtfOpen' = BtfOpen
       /\ last'.op = "drop" => BtfOpen' = {}]_vars

\* C14 witness: attach_to_program on an instance that stores a type-graph
\* descriptor: its resolution succeeded and opened another one, which is no
\* longer open.
C14_Witness ==
    /\ last.op = "attach_to_program"
    /\ last.resolve = "ok"
    /\ last.opened # {}
    /\ IsSome(attach_btf_obj_fd)
    /\ last.opened \cap OptSet(attach_btf_obj_fd) = {}
    /\ BtfOpen = OptSet(attach_btf_obj_fd)

\* buf.len() at the start of round i of the loop, the kernel answering as in s.
BufLenAt(s, i) == RunLoop(SubSeq(s, 1, i - 1)).buflen
\* The loop of the logged resolution ended at its break.
LoopBroke(l) == l.rounds >= 1 /\ l.sizes[l.rounds] # Err

\* C15: the buffer is 4096 bytes long in the first round; a round that is not the
\* last one reported a size above the buffer's length and the next round runs
\* with a buffer of exactly that size, so the length strictly increases, whatever
\* sizes the kernel reports; the loop breaks only in a round whose size is at
\* most the buffer's length, and the buffer parsed has exactly that size.
C15_BufferGrows ==
    last.rounds >= 1 =>
        LET s == last.sizes
            n == last.rounds
        IN  /\ n = Len(s)
            /\ BufLenAt(s, 1) = 4096
            /\ \A i \in 1..(n - 1) :
                  /\ s[i] > BufLenAt(s, i)
                  /\ BufLenAt(s, i + 1) = s[i]
                  /\ BufLenAt(s, i + 1) > BufLenAt(s, i)
            /\ last.resizes = n - 1
            /\ LoopBroke(last) =>
                  /\ s[n] <= BufLenAt(s, n)
                  /\ last.cap = BufLenAt(s, n)
                  /\ last.buflen = s[n]
            /\ ~LoopBroke(last) => last.res = SyscallError(SysBtfInfo)

\* C15 witness: the kernel reported 4097, then 10000, then 100: two resizes, the
\* break in the third round with a buffer of 10000 bytes, 100 bytes parsed.
C15_Witness ==
    /\ last.sizes = <<4097, 10000, 100>>
    /\ last.rounds = 3
    /\ last.resizes = 2
    /\ last.cap = 10000
    /\ last.buflen = 100

\* C16: a load called on a NotLoaded instance that fails, in the resolution or in
\* the generic load, leaves the instance without its own descriptor, and an
\* attach() that follows it fails with NotLoaded and creates no link; when the
\* resolution fails, the generic load is not called and its error is the result.
C16_FailedLoadNotLoaded ==
    [][/\ (last'.op = "load" /\ last'.res # "ok" /\ fd = None) =>
            /\ fd' = None
            /\ AttachPrecheck(fd', attach_prog_fd', attach_btf_id') = "NotLoaded"
            /\ last'.resolve # "ok" =>
                  /\ SysProgLoad \notin Range(last'.calls)
                  /\ last'.res = last'.resolve
       /\ (last.op = "load" /\ last.res # "ok" /\ fd = None /\ last'.op = "attach") =>
            /\ last'.res = "NotLoaded"
            /\ last'.link_calls = <<>>
            /\ links' = links]_vars

\* C16 witness: attach() has failed with NotLoaded on an instance whose two load
\* calls both failed, one of them in the generic load (the slots are filled).
C16_Witness ==
    /\ last.op = "attach"
    /\ last.res = "NotLoaded"
    /\ hist.loads = 2
    /\ ~hist.loaded
    /\ fd = None
    /\ IsSome(attach_btf_obj_fd)

\* C17: the link table starts empty; an attach or attach_to_program call makes at
\* most one bpf_link_create call, adds exactly one link when it succeeds and
\* leaves the table as it was when it fails, keeps every link of the table in it
\* and open; a detach that succeeds takes one link out and no other call changes
\* the table: the links in the table are the successful attach calls minus the
\* detached links.
C17_LinkTableAccounting ==
    /\ links = {}
    /\ [][/\ IsAttachOp(last'.op) =>
                /\ Len(last'.link_calls) <= 1
                /\ Cardinality(LinkCreateCalls(last')) <= 1
                /\ last'.res = "ok" => Cardinality(links') = Cardinality(links) + 1
                /\ last'.res # "ok" => links' = links
                /\ links \subseteq links'
                /\ \A n \in links : fdtab'[n] = "link" /\ fdtab[n] = "link"
          /\ last'.op = "detach" =>
                /\ last'.res = "ok" => Cardinality(links') = Cardinality(links) - 1
                /\ last'.res # "ok" => links' = links
          /\ last'.op \in {"load", "open"} => links' = links]_vars

\* C17 witness: an attach() whose bpf_link_create call failed on a table of two
\* links: the two links are in the table and open.
C17_Witness ==
    /\ last.op = "attach"
    /\ last.res # "ok"
    /\ Len(last.link_calls) = 1
    /\ Cardinality(links) = 2
    /\ \A n \in links : fdtab[n] = "link"

\* C18: attach_to_program only borrows the handle p it is given: whatever the
\* outcome, p is the caller's before and after the call, it refers to the same
\* open program, and no field of the instance holds it.
C18_AtpBorrowsTarget ==
    [][last'.op = "attach_to_program" =>
        LET h == Unwrap(last'.h) IN
        /\ h \in callerFds
        /\ callerFds' = callerFds
        /\ fdtab[h] \in Progs
        /\ fdtab'[h] = fdtab[h]
        /\ attach_prog_fd' # Some(h)
        /\ attach_btf_obj_fd' # Some(h)
        /\ fd' # Some(h)
        /\ h \notin links']_vars

\* C18 witness: attach_to_program has created a link to the program behind p, and
\* p is still open in the caller's hands.
C18_Witness ==
    /\ last.op = "attach_to_program"
    /\ last.res = "ok"
    /\ links # {}
    /\ Unwrap(last.h) \in callerFds
    /\ fdtab[Unwrap(last.h)] = "pA"
    /\ last.link_calls[1].target_fd = last.h

\* C19: the stored target handle, type-graph handle and TypeId are all present
\* or all absent in every state; they are all present whenever the instance has
\* its own program descriptor, and attach() on such an instance does not fail
\* with NotLoaded.
C19_SlotsTogether ==
    /\ \/ IsSome(attach_prog_fd) /\ IsSome(attach_btf_obj_fd) /\ IsSome(attach_btf_id)
       \/ attach_prog_fd = None /\ attach_btf_obj_fd = None /\ attach_btf_id = None
    /\ IsSome(fd) =>
          IsSome(attach_prog_fd) /\ IsSome(attach_btf_obj_fd) /\ IsSome(attach_btf_id)
    /\ (last.op = "attach" /\ IsSome(fd)) =>
          /\ last.res # "NotLoaded"
          /\ Len(last.link_calls) = 1

\* C19 witness: attach() on a Loaded instance failed, in bpf_link_create for want
\* of a free descriptor and not with NotLoaded; the three slots are present.
C19_Witness ==
    /\ last.op = "attach"
    /\ IsSome(fd)
    /\ last.res = LinkCreateError("EMFILE")
    /\ IsSome(attach_prog_fd) /\ IsSome(attach_btf_obj_fd) /\ IsSome(attach_btf_id)

\* C20: load takes the caller's handle in every outcome: after the call the
\* caller does not own it; when the resolution succeeded it is the stored target
\* handle, still open, and when the resolution failed it is closed.
C20_LoadConsumesTarget ==
    [][last'.op = "load" =>
        LET h == Unwrap(last'.h) IN
        /\ h \in callerFds
        /\ fdtab[h] \in Progs
        /\ h \notin callerFds'
        /\ last'.resolve = "ok" =>
              /\ attach_prog_fd' = Some(h)
              /\ fdtab'[h] = fdtab[h]
        /\ last'.resolve # "ok" =>
              /\ fdtab'[h] = Closed
              /\ attach_prog_fd' # Some(h)
              /\ last'.res = last'.resolve]_vars

\* C20 witness: a load whose resolution failed after the type graph was opened
\* (no function of that name): the handle passed to it is closed.
C20_Witness ==
    /\ last.op = "load"
    /\ last.resolve = "Btf:UnknownBtfTypeName"
    /\ last.opened # {}
    /\ fdtab[Unwrap(last.h)] = Closed
    /\ Unwrap(last.h) \notin callerFds

====
